---- MODULE Spec2Model ----
(***************************************************************************)
(* Model of the cex REST request pipeline: the generic executor            *)
(* cex.Request / cex.request, its structured errors, and the Binance       *)
(* request maker bnc.User.Make with its query signing (signReqData).       *)
(*                                                                         *)
(* Strings are sequences of tokens.  A token is a one-character string,    *)
(* or an atomic word without reserved characters (a parameter name, a      *)
(* hex digest).  Errors are trees: a node records how the Go value answers *)
(* errors.Is (sentinel, single %w wrapper, multi %w wrapper, a pointer     *)
(* type with its own Is method, or a typed nil pointer of such a type).    *)
(***************************************************************************)
EXTENDS Integers, Sequences, FiniteSets, TLC

\* ------------------------------------------------------------------------
\* Bounds of the model
\* ------------------------------------------------------------------------

\* The wall clock (epoch milliseconds) is read in 9..MaxClock, so that both
\* one-digit and two-digit timestamps are formatted.
MaxClock == 10

\* A kline body holds at most MaxRows rows of at most MaxRowLen positions
\* each (one more than the declared field names).
MaxRows == 2
MaxRowLen == 13

\* At most MaxCalls calls of Request run concurrently.
MaxCalls == 2

\* ------------------------------------------------------------------------
\* Errors (Go error interface values) and errors.Is
\* ------------------------------------------------------------------------

\* The nil error interface.
NilErr == [kind |-> "nil", name |-> "", subs |-> <<>>]

\* A sentinel error variable (errors.New at package level).
Sentinel(n) == [kind |-> "sentinel", name |-> n, subs |-> <<>>]

\* fmt.Errorf with exactly one %w operand that is a non-nil error.
Wrap1(msg, e) == [kind |-> "wrap", name |-> msg, subs |-> <<e>>]

\* fmt.Errorf without a %w operand (or whose %w operands are all nil
\* interfaces): an error that wraps nothing.
Plain(msg) == [kind |-> "plain", name |-> msg, subs |-> <<>>]

\* fmt.Errorf with several %w verbs: the operands that are non-nil error
\* interfaces are kept, in operand order (a nil interface fails the
\* error type assertion and is formatted as %!w(<nil>) instead).
WrapN(msg, es) ==
    [kind |-> "wrapErrors", name |-> msg,
     subs |-> SelectSeq(es, LAMBDA e : e.kind # "nil")]

ErrInvalidTimestamp == Sentinel("ErrInvalidTimestamp")
ErrS2M == Sentinel("ErrS2M")

\* *RespBodyUnmarshalerError: a pointer, nil or to a struct.
NilRespBodyUnmarshalerError ==
    [isNil |-> TRUE, CexErrCode |-> 0, CexErrMsg |-> "", Err |-> NilErr]

NewRespBodyUnmarshalerError(code, msg, err) ==
    [isNil |-> FALSE, CexErrCode |-> code, CexErrMsg |-> msg, Err |-> err]

\* A *RespBodyUnmarshalerError stored in an error interface.  A nil pointer
\* gives a non-nil interface value that holds a nil pointer.
AsError(p) ==
    IF p.isNil
    THEN [kind |-> "nil*RespBodyUnmarshalerError", name |-> "", subs |-> <<>>]
    ELSE [kind |-> "*RespBodyUnmarshalerError", name |-> p.CexErrMsg,
          subs |-> <<p.Err>>]

\* errors.Is(err, target) for a sentinel target: "true", "false", or
\* "panic" when the walk calls a method that dereferences a nil receiver.
\* The walk is depth first and stops at the first match.
RECURSIVE ErrorsIs(_, _)
RECURSIVE ErrorsIsAny(_, _)

\* (e *RespBodyUnmarshalerError) Is(target): e.Err != nil && errors.Is(e.Err, target).
\* Reading e.Err through a nil receiver panics.
RespBodyUnmarshalerErrorIs(e, target) ==
    IF e.kind = "nil*RespBodyUnmarshalerError" THEN "panic"
    ELSE IF e.subs[1] = NilErr THEN "false"
    ELSE ErrorsIs(e.subs[1], target)

ErrorsIs(err, target) ==
    CASE err.kind = "nil" -> "false"
      [] err.kind = "sentinel" -> IF err = target THEN "true" ELSE "false"
      [] err.kind = "plain" -> "false"
      [] err.kind = "wrap" -> ErrorsIs(err.subs[1], target)
      [] err.kind = "wrapErrors" -> ErrorsIsAny(err.subs, target)
      [] OTHER -> RespBodyUnmarshalerErrorIs(err, target)

\* The loop over Unwrap() []error.
ErrorsIsAny(es, target) ==
    IF es = <<>> THEN "false"
    ELSE LET r == ErrorsIs(Head(es), target)
         IN  IF r = "false" THEN ErrorsIsAny(Tail(es), target) ELSE r

\* ------------------------------------------------------------------------
\* Strings, url.Values and the request maker (bnc.User)
\* ------------------------------------------------------------------------

\* The parameter names of the model, in the byte order sort.Strings gives.
KeyOrder == <<"amount", "signature", "symbol", "timestamp", "type">>

KeyRank(k) == CHOOSE i \in 1..Len(KeyOrder) : KeyOrder[i] = k

\* A sort of the keys in decreasing order.
RECURSIVE SortStringsDescending(_)
SortStringsDescending(S) ==
    IF S = {} THEN <<>>
    ELSE LET k == CHOOSE x \in S : \A y \in S : KeyRank(x) >= KeyRank(y)
         IN  <<k>> \o SortStringsDescending(S \ {k})

\* sort.Strings over the keys of a url.Values (url.Values.Encode sorts them).
RECURSIVE SortStrings(_)
SortStrings(S) ==
    IF S = {} THEN <<>>
    ELSE LET k == CHOOSE x \in S : \A y \in S : KeyRank(x) <= KeyRank(y)
         IN  <<k>> \o SortStrings(S \ {k})

\* url.QueryEscape: reserved characters are percent-encoded, a space
\* becomes "+", every other token is copied.
RECURSIVE QueryEscape(_)
QueryEscape(s) ==
    IF s = <<>> THEN <<>>
    ELSE LET c == Head(s)
             e == CASE c = "&" -> <<"%", "2", "6">>
                    [] c = "=" -> <<"%", "3", "D">>
                    [] c = "%" -> <<"%", "2", "5">>
                    [] c = " " -> <<"+">>
                    [] OTHER -> <<c>>
         IN  e \o QueryEscape(Tail(s))

\* strconv.FormatInt(n, 10) for n >= 0.
Digits == <<"0", "1", "2", "3", "4", "5", "6", "7", "8", "9">>

RECURSIVE FormatInt(_)
FormatInt(n) ==
    IF n < 10 THEN <<Digits[n + 1]>>
    ELSE FormatInt(n \div 10) \o <<Digits[(n % 10) + 1]>>

\* url.Values.Encode: key=value pairs in sorted key order, joined by "&".
\* A url.Values built with Set holds one value per key.
RECURSIVE EncodeKeys(_, _)
EncodeKeys(val, ks) ==
    IF ks = <<>> THEN <<>>
    ELSE LET pair == QueryEscape(<<Head(ks)>>) \o <<"=">> \o QueryEscape(val[Head(ks)])
         IN  IF Len(ks) = 1 THEN pair
             ELSE pair \o <<"&">> \o EncodeKeys(val, Tail(ks))

Encode(val) == EncodeKeys(val, SortStrings(DOMAIN val))

\* for k, v := range m { val.Set(k, v) }: every key of m replaces val's entry.
SetAll(val, m) ==
    [k \in DOMAIN val \cup DOMAIN m |-> IF k \in DOMAIN m THEN m[k] ELSE val[k]]

EmptyMap == [k \in {} |-> <<>>]

\* The orders in which range can yield the keys of the map m: every
\* sequence that holds each key once.
RangeOrders(m) ==
    {o \in [1..Cardinality(DOMAIN m) -> DOMAIN m] :
        \A a, b \in 1..Cardinality(DOMAIN m) : a # b => o[a] # o[b]}

\* for k, v := range m { val.Set(k, v) } when range yields the keys in the
\* order o.
RECURSIVE SetInOrder(_, _, _)
SetInOrder(val, m, o) ==
    IF o = <<>> THEN val
    ELSE SetInOrder([k \in DOMAIN val \cup {Head(o)} |->
                        IF k = Head(o) THEN m[Head(o)] ELSE val[k]],
                    m, Tail(o))

\* s2m.ToStrMap(data): the string map of the request data, or an error for
\* data it cannot serialize.
ToStrMap(data) ==
    IF data.ok THEN [m |-> data.m, err |-> NilErr]
    ELSE [m |-> EmptyMap, err |-> Plain("s2m: unsupported type")]

\* cex.SignByHmacSHA256ToHex(payload, key): a hex digest (one token without
\* reserved characters) that is a function of payload and key, and differs
\* for different (payload, key).
SignByHmacSHA256ToHex(payload, key) == <<ToString(<<"hmacsha256", payload, key>>)>>

\* signReqData with the signature set in val and encoded with the other
\* parameters, in key order.
signReqDataSorted(data, key, now) ==
    LET r == ToStrMap(data) IN
    IF r.err # NilErr
    THEN [query |-> <<>>, err |-> WrapN("%w: %w", <<ErrS2M, r.err>>)]
    ELSE LET val == SetAll([k \in {"timestamp"} |-> FormatInt(now)], r.m)
             sig == SignByHmacSHA256ToHex(Encode(val), key)
         IN  [query |-> Encode(SetAll(val, [k \in {"signature"} |-> sig])),
              err |-> NilErr]

\* signReqData(data, key), with the clock reading `now` of time.Now().
signReqData(data, key, now) ==
    LET r == ToStrMap(data) IN
    IF r.err # NilErr
    THEN [query |-> <<>>, err |-> WrapN("%w: %w", <<ErrS2M, r.err>>)]
    ELSE LET val == SetAll([k \in {"timestamp"} |-> FormatInt(now)], r.m)
             query == Encode(val)
             sig == SignByHmacSHA256ToHex(query, key)
         IN  [query |-> query \o <<"&", "signature", "=">> \o sig, err |-> NilErr]

\* sign with the API key in place of the secret key.
signWithApiKey(u, data, now) == signReqData(data, u.api.ApiKey, now)

\* (u User) sign(data)
sign(u, data, now) == signReqData(data, u.api.SecretKey, now)

\* *resty.Request: nil, or a request with its client's base URL, its query
\* string and the API key header.
NilRequest == [isNil |-> TRUE, baseURL |-> <<>>, queryString |-> <<>>, apiKey |-> ""]

\* (u User) makePublicReq(config, reqData): the request is built and
\* configured, and then nil, nil is returned.
makePublicReq(u, config, reqData) ==
    LET r == ToStrMap(reqData) IN
    IF r.err # NilErr
    THEN [req |-> NilRequest, err |-> Wrap1("bnc: make public request", r.err)]
    ELSE [req |-> NilRequest, err |-> NilErr]

\* (u User) makePrivateReq(config, reqData)
makePrivateReq(u, config, reqData, now) ==
    LET s == sign(u, reqData, now) IN
    IF s.err # NilErr
    THEN [req |-> NilRequest, err |-> s.err]
    ELSE [req |-> [isNil |-> FALSE,
                   baseURL |-> <<config.BaseUrl, config.Path, "?">> \o s.query,
                   queryString |-> <<>>,
                   apiKey |-> u.api.ApiKey],
          err |-> NilErr]

\* (u User) Make(config, reqData)
Make(u, config, reqData, now) ==
    IF config.IsUserData
    THEN makePrivateReq(u, config, reqData, now)
    ELSE makePublicReq(u, config, reqData)

\* ------------------------------------------------------------------------
\* The generic executor: cex.request and cex.Request
\* ------------------------------------------------------------------------

\* *HTTPError: nil or a pointer to a struct.
NilHTTPError == [isNil |-> TRUE, StatusCode |-> 0, Status |-> "", Err |-> NilErr]

\* *resty.Response: nil or a response with its status and body.
NilResponse == [isNil |-> TRUE, StatusCode |-> 0, Status |-> "", Body |-> ""]

\* The zero value of RespDataType.
ZeroData == "zero"

\* The methods the switch of request dispatches.
SupportedMethods == {"GET", "POST", "PUT", "DELETE"}

\* RequestError{ReqBaseConfig: config.ReqBaseConfig}
NewRequestError(base) ==
    [ReqBaseConfig |-> base, HTTPError |-> NilHTTPError,
     RespBodyUnmarshalerError |-> NilRespBodyUnmarshalerError, Err |-> NilErr]

\* SetErr on a fresh RequestError: the base config of the receiver is lost.
SetErrFresh(e, err) ==
    [NewRequestError([BaseUrl |-> "", Path |-> "", Method |-> "", IsUserData |-> FALSE])
       EXCEPT !.Err = err]

\* (e *RequestError) SetErr(err)
SetErr(e, err) == [e EXCEPT !.Err = err]

\* (e *RequestError) Is(target): e.Err != nil && errors.Is(e.Err, target)
RequestErrorIs(e, target) ==
    IF e.Err = NilErr THEN "false" ELSE ErrorsIs(e.Err, target)

\* (e *RequestError) IsNil / IsNotNil
IsNil(e) == e.Err = NilErr
IsNotNil(e) == e.Err # NilErr

\* What one run of request gives: it panics, or it returns resp, data and
\* err; made, sent, checked and decoded tell which collaborators it called.
Outcome(resp, data, err, sent, checked, decoded) ==
    [panic |-> FALSE, resp |-> resp, data |-> data, err |-> err,
     made |-> TRUE, sent |-> sent, checked |-> checked, decoded |-> decoded]

Panic(sent, checked, decoded) ==
    [panic |-> TRUE, resp |-> NilResponse, data |-> ZeroData,
     err |-> NewRequestError([BaseUrl |-> "", Path |-> "", Method |-> "",
                              IsUserData |-> FALSE]),
     made |-> TRUE, sent |-> sent, checked |-> checked, decoded |-> decoded]

\* classify that takes one passing classifier for success.
classifyEither(reqErr, resp, errResty, hv, bv) ==
    IF hv = NilErr \/ bv.err.isNil
    THEN Outcome(resp, bv.data, reqErr, TRUE, TRUE, TRUE)
    ELSE Outcome(resp, bv.data,
                 [reqErr EXCEPT
                    !.HTTPError = [isNil |-> FALSE, StatusCode |-> resp.StatusCode,
                                   Status |-> resp.Status, Err |-> hv],
                    !.RespBodyUnmarshalerError = bv.err,
                    !.Err = WrapN("cex: request, resty err: %w, http err: %w, body unmarshal err: %w",
                                  <<errResty, hv, AsError(bv.err)>>)],
                 TRUE, TRUE, TRUE)

\* classify that does not call the body decoder once the status classifier
\* has reported an error.
classifySkipsDecoder(reqErr, resp, errResty, hv, bv) ==
    IF hv = NilErr /\ bv.err.isNil
    THEN Outcome(resp, bv.data, reqErr, TRUE, TRUE, TRUE)
    ELSE IF hv # NilErr
    THEN Outcome(resp, ZeroData,
                 [reqErr EXCEPT
                    !.HTTPError = [isNil |-> FALSE, StatusCode |-> resp.StatusCode,
                                   Status |-> resp.Status, Err |-> hv],
                    !.Err = WrapN("cex: request, resty err: %w, http err: %w",
                                  <<errResty, hv>>)],
                 TRUE, TRUE, FALSE)
    ELSE Outcome(resp, bv.data,
                 [reqErr EXCEPT
                    !.RespBodyUnmarshalerError = bv.err,
                    !.Err = WrapN("cex: request, resty err: %w, http err: %w, body unmarshal err: %w",
                                  <<errResty, hv, AsError(bv.err)>>)],
                 TRUE, TRUE, TRUE)

\* The tail of request, from the two classifiers on: resp is not nil and
\* both config functions are set.  hv is what config.HTTPStatusCodeChecker
\* returns for resp.StatusCode(), bv what config.RespBodyUnmarshaler returns
\* for resp.Body().
classify(reqErr, resp, errResty, hv, bv) ==
    LET errHttp == hv
        respData == bv.data
        errBodyUnmarshal == bv.err
    IN  IF errHttp = NilErr /\ errBodyUnmarshal.isNil
        THEN Outcome(resp, respData, reqErr, TRUE, TRUE, TRUE)
        ELSE LET e1 == IF errHttp # NilErr
                       THEN [reqErr EXCEPT !.HTTPError =
                                [isNil |-> FALSE, StatusCode |-> resp.StatusCode,
                                 Status |-> resp.Status, Err |-> errHttp]]
                       ELSE reqErr
                 e2 == IF ~errBodyUnmarshal.isNil
                       THEN [e1 EXCEPT !.RespBodyUnmarshalerError = errBodyUnmarshal]
                       ELSE e1
                 e3 == [e2 EXCEPT !.Err =
                           WrapN("cex: request, resty err: %w, http err: %w, body unmarshal err: %w",
                                 <<errResty, errHttp, AsError(errBodyUnmarshal)>>)]
             IN  Outcome(resp, respData, e3, TRUE, TRUE, TRUE)

\* received without the test err != nil && resp == nil.
receivedNoErrTest(reqErr, config, tr, hv, bv) ==
    IF tr.resp.isNil
    THEN Outcome(tr.resp, ZeroData,
                 SetErr(reqErr, Plain("cex: resp and err are all nil, resty may have bugs")),
                 TRUE, FALSE, FALSE)
    ELSE IF config.HTTPStatusCodeChecker = "nil"
    THEN Outcome(tr.resp, ZeroData,
                 SetErr(reqErr, Plain("cex: config http status code checker is nil")),
                 TRUE, FALSE, FALSE)
    ELSE IF config.RespBodyUnmarshaler = "nil"
    THEN Outcome(tr.resp, ZeroData,
                 SetErr(reqErr, Plain("cex: config resp body unmarshaler is nil")),
                 TRUE, FALSE, FALSE)
    ELSE classify(reqErr, tr.resp, tr.err, hv, bv)

\* received without the test resp == nil.
receivedNoNilTest(reqErr, config, tr, hv, bv) ==
    IF tr.err # NilErr /\ tr.resp.isNil
    THEN Outcome(tr.resp, ZeroData, SetErr(reqErr, Wrap1("cex: request err", tr.err)),
                 TRUE, FALSE, FALSE)
    ELSE IF config.HTTPStatusCodeChecker = "nil"
    THEN Outcome(tr.resp, ZeroData,
                 SetErr(reqErr, Plain("cex: config http status code checker is nil")),
                 TRUE, FALSE, FALSE)
    ELSE IF config.RespBodyUnmarshaler = "nil"
    THEN Outcome(tr.resp, ZeroData,
                 SetErr(reqErr, Plain("cex: config resp body unmarshaler is nil")),
                 TRUE, FALSE, FALSE)
    ELSE classify(reqErr, tr.resp, tr.err, hv, bv)

\* received that ends with the transport error whenever the transport
\* reports one, response or not.
receivedErrIsTerminal(reqErr, config, tr, hv, bv) ==
    IF tr.err # NilErr
    THEN Outcome(tr.resp, ZeroData, SetErr(reqErr, Wrap1("cex: request err", tr.err)),
                 TRUE, FALSE, FALSE)
    ELSE IF tr.resp.isNil
    THEN Outcome(tr.resp, ZeroData,
                 SetErr(reqErr, Plain("cex: resp and err are all nil, resty may have bugs")),
                 TRUE, FALSE, FALSE)
    ELSE IF config.HTTPStatusCodeChecker = "nil"
    THEN Outcome(tr.resp, ZeroData,
                 SetErr(reqErr, Plain("cex: config http status code checker is nil")),
                 TRUE, FALSE, FALSE)
    ELSE IF config.RespBodyUnmarshaler = "nil"
    THEN Outcome(tr.resp, ZeroData,
                 SetErr(reqErr, Plain("cex: config resp body unmarshaler is nil")),
                 TRUE, FALSE, FALSE)
    ELSE classify(reqErr, tr.resp, tr.err, hv, bv)

\* received that does not test the config's functions for nil.
receivedNoConfigTest(reqErr, config, tr, hv, bv) ==
    IF tr.err # NilErr /\ tr.resp.isNil
    THEN Outcome(tr.resp, ZeroData, SetErr(reqErr, Wrap1("cex: request err", tr.err)),
                 TRUE, FALSE, FALSE)
    ELSE IF tr.resp.isNil
    THEN Outcome(tr.resp, ZeroData,
                 SetErr(reqErr, Plain("cex: resp and err are all nil, resty may have bugs")),
                 TRUE, FALSE, FALSE)
    ELSE classify(reqErr, tr.resp, tr.err, hv, bv)

\* The middle of request: what it does with the transport's (resp, err).
received(reqErr, config, tr, hv, bv) ==
    LET resp == tr.resp
        err == tr.err
    IN  IF err # NilErr /\ resp.isNil
        THEN Outcome(resp, ZeroData, SetErr(reqErr, Wrap1("cex: request err", err)),
                     TRUE, FALSE, FALSE)
        ELSE IF resp.isNil
        THEN Outcome(resp, ZeroData,
                     SetErr(reqErr, Plain("cex: resp and err are all nil, resty may have bugs")),
                     TRUE, FALSE, FALSE)
        ELSE IF config.HTTPStatusCodeChecker = "nil"
        THEN Outcome(resp, ZeroData,
                     SetErr(reqErr, Plain("cex: config http status code checker is nil")),
                     TRUE, FALSE, FALSE)
        ELSE IF config.RespBodyUnmarshaler = "nil"
        THEN Outcome(resp, ZeroData,
                     SetErr(reqErr, Plain("cex: config resp body unmarshaler is nil")),
                     TRUE, FALSE, FALSE)
        ELSE classify(reqErr, resp, err, hv, bv)

\* request without the test of the maker's error.
requestIgnoresMakeErr(reqMaker, config, reqData, now, tr, hv, bv) ==
    LET reqErr == NewRequestError(config.ReqBaseConfig)
        mk == Make(reqMaker, config.ReqBaseConfig, reqData, now)
    IN  IF config.ReqBaseConfig.Method \notin SupportedMethods
        THEN Outcome(NilResponse, ZeroData,
                     SetErr(reqErr, Plain("cex: http method is not supported")),
                     FALSE, FALSE, FALSE)
        ELSE IF mk.req.isNil
        THEN Panic(FALSE, FALSE, FALSE)
        ELSE received(reqErr, config, tr, hv, bv)

\* request whose switch has no default case: every method is dispatched.
requestDispatchesAnyMethod(reqMaker, config, reqData, now, tr, hv, bv) ==
    LET reqErr == NewRequestError(config.ReqBaseConfig)
        mk == Make(reqMaker, config.ReqBaseConfig, reqData, now)
    IN  IF mk.err # NilErr
        THEN Outcome(NilResponse, ZeroData,
                     SetErr(reqErr, Wrap1("cex: make request", mk.err)),
                     FALSE, FALSE, FALSE)
        ELSE IF mk.req.isNil
        THEN Panic(FALSE, FALSE, FALSE)
        ELSE received(reqErr, config, tr, hv, bv)

\* request(reqMaker, config, reqData): one attempt.  now is the clock the
\* maker reads, tr the transport's answer should the request be sent.
request(reqMaker, config, reqData, now, tr, hv, bv) ==
    LET reqErr == NewRequestError(config.ReqBaseConfig)
        mk == Make(reqMaker, config.ReqBaseConfig, reqData, now)
    IN  IF mk.err # NilErr
        THEN Outcome(NilResponse, ZeroData,
                     SetErr(reqErr, Wrap1("cex: make request", mk.err)),
                     FALSE, FALSE, FALSE)
        ELSE IF config.ReqBaseConfig.Method \notin SupportedMethods
        THEN Outcome(NilResponse, ZeroData,
                     SetErr(reqErr, Plain("cex: http method is not supported")),
                     FALSE, FALSE, FALSE)
        ELSE IF mk.req.isNil
        THEN Panic(FALSE, FALSE, FALSE)   \* req.Get("") on a nil *resty.Request
        ELSE received(reqErr, config, tr, hv, bv)

\* for i := 0; i < 3; i++
MaxAttempts == 3

\* ------------------------------------------------------------------------
\* Inputs
\* ------------------------------------------------------------------------

Clock == 9..MaxClock

Methods == SupportedMethods \cup {"PATCH"}

\* bnc.NewUser(apiKey, secretKey)
Users == {[api |-> [ApiKey |-> "apikey", SecretKey |-> k]] : k \in {"k1", "k2"}}

\* ReqConfig values: the embedded ReqBaseConfig and the two function
\* fields, each nil or set.
Configs ==
    {[ReqBaseConfig |-> [BaseUrl |-> "https://api", Path |-> "/path",
                         Method |-> m, IsUserData |-> u],
      HTTPStatusCodeChecker |-> c, RespBodyUnmarshaler |-> b] :
        m \in Methods, u \in BOOLEAN, c \in {"nil", "set"}, b \in {"nil", "set"}}

\* Request data: nil (no parameters), parameter structs given by their
\* string map, and one value that s2m cannot serialize.  The maps include
\* keys that sort before and after "signature" and "timestamp", a value that
\* holds reserved characters, a key named signature and a key named
\* timestamp.
ReqDatas ==
    { [ok |-> TRUE, m |-> EmptyMap],
      [ok |-> TRUE, m |-> [k \in {"symbol"} |-> <<"E", "T", "H">>]],
      [ok |-> TRUE, m |-> [k \in {"amount", "type"} |->
                             IF k = "amount" THEN <<"1">>
                             ELSE <<"a", "&", "signature", "=", "b">>]],
      [ok |-> TRUE, m |-> [k \in {"signature", "symbol"} |-> <<"x">>]],
      [ok |-> TRUE, m |-> [k \in {"timestamp"} |-> <<"7">>]],
      [ok |-> FALSE, m |-> EmptyMap] }

\* The calls the executor is run with: one credential, and request data
\* that serializes (the example of the documentation, and parameters that
\* have a timestamp of their own) or does not.
CallUsers == {u \in Users : u.api.SecretKey = "k1"}

CallReqDatas ==
    {d \in ReqDatas : ~d.ok \/ DOMAIN d.m = {"symbol"} \/ DOMAIN d.m = {"timestamp"}}

\* Non-nil responses of the transport.
Responses ==
    {[isNil |-> FALSE, StatusCode |-> 200, Status |-> "200 OK", Body |-> "body"],
     [isNil |-> FALSE, StatusCode |-> 500, Status |-> "500 Internal Server Error",
      Body |-> "body"]}

\* An error of the transport library.
ErrTransport == Plain("resty: dial tcp: connection refused")

\* What req.Get/Post/Put/Delete can return: every combination of a nil or
\* non-nil response with a nil or non-nil error.
TransportOutcomes ==
    {[resp |-> r, err |-> e] : r \in Responses \cup {NilResponse},
                               e \in {NilErr, ErrTransport}}

NoTransport == [resp |-> NilResponse, err |-> NilErr]

\* What a configured HTTPStatusCodeChecker can return: nil, an error, an
\* error whose chain holds ErrInvalidTimestamp.
HTTPVerdicts ==
    {NilErr, Plain("http status error"), Wrap1("http status", ErrInvalidTimestamp)}

\* What a configured RespBodyUnmarshaler can return: a payload and a nil
\* error pointer, or an error struct (cause ErrInvalidTimestamp, another
\* cause, or no Err at all).
BodyVerdicts ==
    { [data |-> "d1", err |-> NilRespBodyUnmarshalerError],
      [data |-> "d2", err |-> NilRespBodyUnmarshalerError],
      [data |-> ZeroData,
       err |-> NewRespBodyUnmarshalerError(-1021, "timestamp outside recvWindow",
                                           Wrap1("bnc", ErrInvalidTimestamp))],
      [data |-> ZeroData,
       err |-> NewRespBodyUnmarshalerError(-2015, "invalid api key",
                                           Wrap1("bnc", Sentinel("ErrInvalidApiKey")))],
      [data |-> ZeroData,
       err |-> NewRespBodyUnmarshalerError(-1000, "unknown", NilErr)] }

NoBody == [data |-> ZeroData, err |-> NilRespBodyUnmarshalerError]

\* ------------------------------------------------------------------------
\* State
\* ------------------------------------------------------------------------

VARIABLES
    pc,        \* "idle", "loop" (inside the for loop of Request), "returned", "panicked"
    i,         \* the loop counter of Request
    reqMaker,  \* arguments of the call
    config,
    reqData,
    resp,      \* the locals resp, data, err of Request
    data,
    err,
    now,       \* the last reading of the clock
    last,      \* the last attempt: what the maker built, whether request
               \* panicked, what the transport and the two config functions
               \* returned
    count,     \* per call: attempts, maker calls, transport calls, checker and
               \* decoder calls
    arg,       \* the arguments of a function that is run on its own (a body
               \* decoder, Api.Sign)
    out,       \* what that function returned
    calls      \* the locals of each of several concurrent calls of Request

vars == <<pc, i, reqMaker, config, reqData, resp, data, err, now, last, count,
          arg, out, calls>>

NoAttempt ==
    [mk |-> [req |-> NilRequest, err |-> NilErr], panic |-> FALSE,
     sent |-> FALSE, tr |-> NoTransport,
     checked |-> FALSE, hv |-> NilErr, decoded |-> FALSE, bv |-> NoBody]

ZeroCount == [Attempts |-> 0, Make |-> 0, Transport |-> 0, Checker |-> 0, Decoder |-> 0]

\* No function is run on its own, and no concurrent calls are made.
NoArg == [fn |-> "none"]
NoOut == [fn |-> "none"]
NoCalls == <<>>

\* var err RequestError
ZeroRequestError ==
    NewRequestError([BaseUrl |-> "", Path |-> "", Method |-> "", IsUserData |-> FALSE])

Init ==
    /\ pc = "idle"
    /\ i = 0
    /\ reqMaker \in CallUsers
    /\ config \in Configs
    /\ reqData \in CallReqDatas
    /\ resp = NilResponse
    /\ data = ZeroData
    /\ err = ZeroRequestError
    /\ now \in Clock
    /\ last = NoAttempt
    /\ count = ZeroCount
    /\ arg = NoArg
    /\ out = NoOut
    /\ calls = NoCalls

\* Request is called: var resp, data, err; i := 0.
Request ==
    /\ pc = "idle"
    /\ pc' = "loop"
    /\ i' = 0
    /\ resp' = NilResponse
    /\ data' = ZeroData
    /\ err' = ZeroRequestError
    /\ last' = NoAttempt
    /\ count' = ZeroCount
    /\ UNCHANGED <<reqMaker, config, reqData, now, arg, out, calls>>

\* What the loop of Request does with the result r of request:
\* err.Is(ErrInvalidTimestamp) panics, continues (i++ and the test i < 3),
\* or breaks; after the loop Request returns resp, data, err.
loopStep(r, k) ==
    LET is == RequestErrorIs(r.err, ErrInvalidTimestamp)
    IN  CASE is = "panic" -> [pc |-> "panicked", i |-> k]
          [] is = "true" -> [pc |-> IF k + 1 < MaxAttempts THEN "loop" ELSE "returned",
                             i |-> k + 1]
          [] OTHER -> [pc |-> "returned", i |-> k]

\* One iteration of the loop of Request: request runs once, with the clock
\* reading t, the transport's answer tr and the answers hv, bv of the
\* config's functions; then the retry test.  An input is drawn only when
\* this run of request consumes it (the request is sent; the classifiers
\* are called).
Attempt ==
    /\ pc = "loop"
    /\ \E t \in Clock :
       \E tr \in IF request(reqMaker, config, reqData, t, NoTransport, NilErr, NoBody).sent
                 THEN TransportOutcomes ELSE {NoTransport} :
       \E hv \in IF request(reqMaker, config, reqData, t, tr, NilErr, NoBody).checked
                 THEN HTTPVerdicts ELSE {NilErr} :
       \E bv \in IF request(reqMaker, config, reqData, t, tr, NilErr, NoBody).decoded
                 THEN BodyVerdicts ELSE {NoBody} :
         LET r == request(reqMaker, config, reqData, t, tr, hv, bv)
             nx == loopStep(r, i)
         IN  /\ now' = IF config.ReqBaseConfig.IsUserData /\ reqData.ok THEN t ELSE now
             /\ last' = [mk |-> Make(reqMaker, config.ReqBaseConfig, reqData, t),
                         panic |-> r.panic,
                         sent |-> r.sent, tr |-> tr,
                         checked |-> r.checked, hv |-> hv,
                         decoded |-> r.decoded, bv |-> bv]
             /\ count' = [Attempts |-> count.Attempts + 1,
                          Make |-> count.Make + 1,
                          Transport |-> count.Transport + (IF r.sent THEN 1 ELSE 0),
                          Checker |-> count.Checker + (IF r.checked THEN 1 ELSE 0),
                          Decoder |-> count.Decoder + (IF r.decoded THEN 1 ELSE 0)]
             /\ IF r.panic
                THEN pc' = "panicked" /\ UNCHANGED <<i, resp, data, err>>
                ELSE /\ resp' = r.resp
                     /\ data' = r.data
                     /\ err' = r.err
                     /\ pc' = nx.pc
                     /\ i' = nx.i
    /\ UNCHANGED <<reqMaker, config, reqData, arg, out, calls>>

Next == Request \/ Attempt

Spec == Init /\ [][Next]_vars

\* ------------------------------------------------------------------------
\* The request maker alone: Make applied to every credential, endpoint and
\* request data of the model
\* ------------------------------------------------------------------------

InitMake ==
    /\ pc = "idle"
    /\ i = 0
    /\ reqMaker \in Users
    /\ config \in Configs
    /\ reqData \in ReqDatas
    /\ resp = NilResponse
    /\ data = ZeroData
    /\ err = ZeroRequestError
    /\ now \in Clock
    /\ last = NoAttempt
    /\ count = ZeroCount
    /\ arg = NoArg
    /\ out = NoOut
    /\ calls = NoCalls

\* reqMaker.Make(config.ReqBaseConfig, reqData) is called at clock reading t.
CallMake ==
    /\ pc = "idle"
    /\ \E t \in Clock :
         /\ now' = t
         /\ last' = [NoAttempt EXCEPT !.mk = Make(reqMaker, config.ReqBaseConfig, reqData, t)]
    /\ pc' = "made"
    /\ count' = [count EXCEPT !.Make = 1]
    /\ UNCHANGED <<i, reqMaker, config, reqData, resp, data, err, arg, out, calls>>

SpecMake == InitMake /\ [][CallMake]_vars

\* ------------------------------------------------------------------------
\* The body decoder of the futures endpoints: fuBodyUnmshWrapper
\* ------------------------------------------------------------------------

ErrUnexpected == Sentinel("ErrUnexpected")
ErrJsonUnmarshal == Sentinel("ErrJsonUnmarshal")

\* Response bodies.  kind tells the JSON shape: "envelope" is an object
\* with a numeric code and a string msg; "mistyped" an object with a
\* numeric code whose msg is not a string; "object" an object that has
\* neither field (a payload); "array" a JSON array; "text" bytes that are
\* not JSON.  payload is what the typed payload decoder makes of the body:
\* a value, or "bad" when it cannot decode it.
EnvelopeCodes == {0, 200, 1, -1021, -2015, -9999}

EnvelopeMsgs == {"", "Timestamp for this request is outside of the recvWindow.", "m"}

Payloads == {"d1", "d2", "bad"}

Bodies ==
    {[kind |-> "envelope", code |-> c, msg |-> m, payload |-> p] :
        c \in EnvelopeCodes, m \in EnvelopeMsgs, p \in Payloads}
    \cup {[kind |-> "mistyped", code |-> c, msg |-> "123", payload |-> p] :
            c \in EnvelopeCodes, p \in Payloads}
    \cup {[kind |-> k, code |-> 0, msg |-> "", payload |-> p] :
            k \in {"object", "array", "text"}, p \in Payloads}

\* json.Unmarshal(body, &codeMsg) with codeMsg := CodeMsg{}: bytes that are
\* not JSON are rejected before anything is stored; an array cannot be
\* stored in the struct; a field whose JSON value does not fit its Go type
\* is skipped and reported, while the other fields are stored.
UnmarshalCodeMsg(body) ==
    CASE body.kind = "envelope" ->
            [err |-> NilErr, Code |-> body.code, Msg |-> body.msg]
      [] body.kind = "mistyped" ->
            [err |-> Plain("json: cannot unmarshal number into Go struct field CodeMsg.msg of type string"),
             Code |-> body.code, Msg |-> ""]
      [] body.kind = "object" ->
            [err |-> NilErr, Code |-> 0, Msg |-> ""]
      [] body.kind = "array" ->
            [err |-> Plain("json: cannot unmarshal array into Go value of type bnc.CodeMsg"),
             Code |-> 0, Msg |-> ""]
      [] OTHER ->
            [err |-> Plain("invalid character looking for beginning of value"),
             Code |-> 0, Msg |-> ""]

\* spotCexCustomErrCodes: the causes of the exchange's error codes.
spotCexCustomErrCodes ==
    [c \in {-1021, -2015} |->
        IF c = -1021 THEN ErrInvalidTimestamp ELSE Sentinel("ErrInvalidApiKey")]

\* spotCexCustomErrCodes[code]: nil for a code that is not a key of the map.
CustomErrOf(code) ==
    IF code \in DOMAIN spotCexCustomErrCodes THEN spotCexCustomErrCodes[code] ELSE NilErr

\* fuBodyUnmshCodeMsg that does not look the code up in the table.
fuBodyUnmshCodeMsgNoTable(body) ==
    LET codeMsg == UnmarshalCodeMsg(body)
        code == codeMsg.Code
        msg == codeMsg.Msg
    IN  IF code = 0 \/ code = 200 THEN NilRespBodyUnmarshalerError
        ELSE IF code > 0
        THEN NewRespBodyUnmarshalerError(code, msg,
                 Wrap1(ToString(<<"bnc: code, msg", code, msg>>), ErrUnexpected))
        ELSE NewRespBodyUnmarshalerError(code, msg,
                 Wrap1("bnc", Plain(ToString(<<code, msg>>))))

\* fuBodyUnmshCodeMsg(body)
fuBodyUnmshCodeMsg(body) ==
    LET codeMsg == UnmarshalCodeMsg(body)
        code == codeMsg.Code
        msg == codeMsg.Msg
    IN  IF code = 0 \/ code = 200 THEN NilRespBodyUnmarshalerError
        ELSE IF code > 0
        THEN NewRespBodyUnmarshalerError(code, msg,
                 Wrap1(ToString(<<"bnc: code, msg", code, msg>>), ErrUnexpected))
        ELSE LET errCtm == IF CustomErrOf(code) = NilErr
                           THEN Plain(ToString(<<code, msg>>))
                           ELSE CustomErrOf(code)
             IN  NewRespBodyUnmarshalerError(code, msg, Wrap1("bnc", errCtm))

\* The typed payload decoder that fuBodyUnmshWrapper is given.
unmarshaler(body) ==
    IF body.payload = "bad"
    THEN [data |-> ZeroData,
          err |-> NewRespBodyUnmarshalerError(0, "",
                      WrapN("%w: unmarshal response body, %w",
                            <<ErrJsonUnmarshal, Plain("json: cannot unmarshal")>>))]
    ELSE [data |-> body.payload, err |-> NilRespBodyUnmarshalerError]

\* The decoder fuBodyUnmshWrapper(unmarshaler) returns, applied to body; ran
\* tells whether it called unmarshaler.
fuBodyUnmshWrapper(body) ==
    LET e == fuBodyUnmshCodeMsg(body)
    IN  IF ~e.isNil
        THEN [data |-> ZeroData, err |-> e, ran |-> FALSE]
        ELSE [data |-> unmarshaler(body).data, err |-> unmarshaler(body).err, ran |-> TRUE]

InitEnvelope ==
    /\ pc = "idle"
    /\ i = 0
    /\ reqMaker \in CallUsers
    /\ config \in {c \in Configs : c.ReqBaseConfig.Method = "GET"
                                   /\ c.ReqBaseConfig.IsUserData
                                   /\ c.HTTPStatusCodeChecker = "set"
                                   /\ c.RespBodyUnmarshaler = "set"}
    /\ reqData \in {d \in CallReqDatas : d.ok}
    /\ resp = NilResponse
    /\ data = ZeroData
    /\ err = ZeroRequestError
    /\ now = MaxClock
    /\ last = NoAttempt
    /\ count = ZeroCount
    /\ arg \in {[fn |-> "fuBodyUnmshWrapper", body |-> b] : b \in Bodies}
    /\ out = NoOut
    /\ calls = NoCalls

\* The decoder is called on the body.
CallFuBodyUnmsh ==
    /\ pc = "idle"
    /\ arg.fn = "fuBodyUnmshWrapper"
    /\ out' = [fn |-> arg.fn, r |-> fuBodyUnmshWrapper(arg.body)]
    /\ pc' = "done"
    /\ UNCHANGED <<i, reqMaker, config, reqData, resp, data, err, now, last, count,
                   arg, calls>>

SpecEnvelope == InitEnvelope /\ [][CallFuBodyUnmsh]_vars

\* ------------------------------------------------------------------------
\* The body decoder of the kline endpoint: klineBodyUnmsher
\* ------------------------------------------------------------------------

klineMapKeys ==
    <<"openTime", "openPrice", "highPrice", "lowPrice", "closePrice", "volume",
      "closeTime", "quoteAssetVolume", "tradesNumber", "takerBuyBaseAssetVolume",
      "takerBuyQuoteAssetVolume", "unused">>

klineLastIndex == Len(klineMapKeys) - 1

\* The zero value of a field of Kline that the JSON object does not hold.
ZeroField == <<>>

\* The inner loop with the test i >= klineLastIndex.
RECURSIVE klineRowMapShort(_, _, _)
klineRowMapShort(kline, k, m) ==
    IF k >= Len(kline) \/ k >= klineLastIndex THEN m
    ELSE klineRowMapShort(kline, k + 1,
             [n \in DOMAIN m \cup {klineMapKeys[k + 1]} |->
                 IF n = klineMapKeys[k + 1] THEN kline[k + 1] ELSE m[n]])

\* for i, v := range kline { if i > klineLastIndex { break };
\* m[klineMapKeys[i]] = v }, from index k on (indices count from 0).
RECURSIVE klineRowMap(_, _, _)
klineRowMap(kline, k, m) ==
    IF k >= Len(kline) \/ k > klineLastIndex THEN m
    ELSE klineRowMap(kline, k + 1,
             [n \in DOMAIN m \cup {klineMapKeys[k + 1]} |->
                 IF n = klineMapKeys[k + 1] THEN kline[k + 1] ELSE m[n]])

\* json.Marshal(&m) and json.Unmarshal(d, &k): the Kline whose fields are
\* the values of m under the declared names, and zero where m has no entry.
ToKline(m) ==
    [n \in {klineMapKeys[j] : j \in 1..Len(klineMapKeys)} |->
        IF n \in DOMAIN m THEN m[n] ELSE ZeroField]

\* The outer loop: klines = append(klines, k) for every row, in order.
RECURSIVE klineRows(_)
klineRows(rows) ==
    IF rows = <<>> THEN <<>>
    ELSE <<ToKline(klineRowMap(Head(rows), 0, EmptyMap))>> \o klineRows(Tail(rows))

\* klineBodyUnmsher(body)
klineBodyUnmsher(body) ==
    IF body.kind # "rows"
    THEN [data |-> <<>>,
          err |-> NewRespBodyUnmarshalerError(0, "",
                      WrapN("%w: %w", <<ErrJsonUnmarshal, Plain("json: cannot unmarshal")>>))]
    ELSE [data |-> klineRows(body.rows), err |-> NilRespBodyUnmarshalerError]

\* Positional rows: the value at position p (from 0) of a row names the row's
\* series and p.
KlineRowValues ==
    {[p \in 1..n |-> <<v, p - 1>>] : v \in {"a", "b"}, n \in 0..MaxRowLen}

\* Kline bodies: arrays of rows, and bytes that are not such an array.
KlineBodies ==
    {[kind |-> "rows", rows |-> r] :
        r \in UNION {[1..n -> KlineRowValues] : n \in 0..MaxRows}}
    \cup {[kind |-> "text", rows |-> <<>>]}

InitKline ==
    /\ pc = "idle"
    /\ i = 0
    /\ reqMaker \in CallUsers
    /\ config \in {c \in Configs : c.ReqBaseConfig.Method = "GET"
                                   /\ ~c.ReqBaseConfig.IsUserData
                                   /\ c.HTTPStatusCodeChecker = "set"
                                   /\ c.RespBodyUnmarshaler = "set"}
    /\ reqData \in {d \in CallReqDatas : d.ok}
    /\ resp = NilResponse
    /\ data = ZeroData
    /\ err = ZeroRequestError
    /\ now = MaxClock
    /\ last = NoAttempt
    /\ count = ZeroCount
    /\ arg \in {[fn |-> "klineBodyUnmsher", body |-> b] : b \in KlineBodies}
    /\ out = NoOut
    /\ calls = NoCalls

\* The decoder is called on the body.
CallKlineBodyUnmsher ==
    /\ pc = "idle"
    /\ arg.fn = "klineBodyUnmsher"
    /\ out' = [fn |-> arg.fn, r |-> klineBodyUnmsher(arg.body)]
    /\ pc' = "done"
    /\ UNCHANGED <<i, reqMaker, config, reqData, resp, data, err, now, last, count,
                   arg, calls>>

SpecKline == InitKline /\ [][CallKlineBodyUnmsher]_vars

\* ------------------------------------------------------------------------
\* cex.Api.Sign
\* ------------------------------------------------------------------------

\* []byte: nil, or a slice of bytes.
NilBytes == [isNil |-> TRUE, b |-> <<>>]
Bytes(b) == [isNil |-> FALSE, b |-> b]

\* Values of the field signer: nil, or a function of (payload, key).
Signers == {"nil", "hmac", "concat", "none"}

\* signer(payload, key).  Calling a nil function value panics.
CallSigner(signer, payload, key) ==
    CASE signer = "nil" -> [panic |-> TRUE, sig |-> NilBytes]
      [] signer = "hmac" ->
            [panic |-> FALSE, sig |-> Bytes(SignByHmacSHA256ToHex(payload, key))]
      [] signer = "concat" -> [panic |-> FALSE, sig |-> Bytes(key \o payload)]
      [] OTHER -> [panic |-> FALSE, sig |-> NilBytes]

\* Sign that signs with the credential's own secret key.
SignWithSecretKey(api, payload, key) ==
    IF api.signer # "nil"
    THEN CallSigner(api.signer, payload, <<api.SecretKey>>)
    ELSE [panic |-> FALSE, sig |-> NilBytes]

\* (api Api) Sign(payload, key)
Sign(api, payload, key) ==
    IF api.signer # "nil"
    THEN CallSigner(api.signer, payload, key)
    ELSE [panic |-> FALSE, sig |-> NilBytes]

Apis ==
    {[ApiKey |-> "apikey", SecretKey |-> k, signer |-> f] :
        k \in {"k1", "k2"}, f \in Signers}

SignPayloads ==
    {<<>>, <<"a">>, <<"symbol", "=", "E", "T", "H">>,
     <<"symbol", "=", "E", "T", "H", "&", "timestamp", "=", "9">>}

SignKeys == {<<>>, <<"k1">>, <<"k3">>}

InitSign ==
    /\ pc = "idle"
    /\ i = 0
    /\ reqMaker \in CallUsers
    /\ config \in {c \in Configs : c.ReqBaseConfig.Method = "GET"
                                   /\ c.ReqBaseConfig.IsUserData
                                   /\ c.HTTPStatusCodeChecker = "set"
                                   /\ c.RespBodyUnmarshaler = "set"}
    /\ reqData \in {d \in CallReqDatas : d.ok}
    /\ resp = NilResponse
    /\ data = ZeroData
    /\ err = ZeroRequestError
    /\ now = MaxClock
    /\ last = NoAttempt
    /\ count = ZeroCount
    /\ arg \in {[fn |-> "Sign", api |-> a, payload |-> p, key |-> k] :
                  a \in Apis, p \in SignPayloads, k \in SignKeys}
    /\ out = NoOut
    /\ calls = NoCalls

\* api.Sign(payload, key) is called.
CallSign ==
    /\ pc = "idle"
    /\ arg.fn = "Sign"
    /\ out' = [fn |-> arg.fn, r |-> Sign(arg.api, arg.payload, arg.key)]
    /\ pc' = "done"
    /\ UNCHANGED <<i, reqMaker, config, reqData, resp, data, err, now, last, count,
                   arg, calls>>

SpecSign == InitSign /\ [][CallSign]_vars

\* ------------------------------------------------------------------------
\* Concurrent calls of Request, each on a goroutine of one process
\* ------------------------------------------------------------------------

CallIds == 1..MaxCalls

\* The locals of a call that has not started, and of one that has entered
\* the loop; hist lists what its runs of request were given.
IdleCall ==
    [pc |-> "idle", i |-> 0, resp |-> NilResponse, data |-> ZeroData,
     err |-> ZeroRequestError, hist |-> <<>>]

StartedCall == [IdleCall EXCEPT !.pc = "loop"]

\* What one run of request is given in a concurrent call: a clock reading,
\* the transport's answer and the answers of the config's functions.  The
\* runs succeed, end with a clock-skew error of the body decoder, with a
\* status error alone, with another body error, or with a transport error.
ConcInputs ==
    LET r200 == CHOOSE r \in Responses : r.StatusCode = 200
        r500 == CHOOSE r \in Responses : r.StatusCode = 500
        ok == CHOOSE b \in BodyVerdicts : b.data = "d1"
        skew == CHOOSE b \in BodyVerdicts : b.err.CexErrCode = -1021
        key == CHOOSE b \in BodyVerdicts : b.err.CexErrCode = -2015
    IN  { [t |-> MaxClock, tr |-> [resp |-> r200, err |-> NilErr], hv |-> NilErr, bv |-> ok],
          [t |-> MaxClock, tr |-> [resp |-> r200, err |-> NilErr], hv |-> NilErr, bv |-> skew],
          [t |-> MaxClock, tr |-> [resp |-> r500, err |-> NilErr],
           hv |-> Plain("http status error"), bv |-> ok],
          [t |-> MaxClock, tr |-> [resp |-> r200, err |-> NilErr], hv |-> NilErr, bv |-> key],
          [t |-> MaxClock, tr |-> [resp |-> NilResponse, err |-> ErrTransport],
           hv |-> NilErr, bv |-> NoBody] }

\* One iteration of the loop of Request on the locals st of a call: request
\* reads the shared config, maker and request data, and writes only locals.
callStep(st, inp) ==
    LET r == request(reqMaker, config, reqData, inp.t, inp.tr, inp.hv, inp.bv)
        nx == loopStep(r, st.i)
    IN  IF r.panic
        THEN [st EXCEPT !.pc = "panicked", !.hist = Append(st.hist, inp)]
        ELSE [pc |-> nx.pc, i |-> nx.i, resp |-> r.resp, data |-> r.data,
              err |-> r.err, hist |-> Append(st.hist, inp)]

InitConc ==
    /\ pc = "idle"
    /\ i = 0
    /\ reqMaker \in CallUsers
    /\ config \in {c \in Configs : c.ReqBaseConfig.Method \in {"GET", "PATCH"}
                                   /\ c.HTTPStatusCodeChecker = "set"
                                   /\ c.RespBodyUnmarshaler = "set"}
    /\ reqData \in {d \in CallReqDatas : d.ok}
    /\ resp = NilResponse
    /\ data = ZeroData
    /\ err = ZeroRequestError
    /\ now = MaxClock
    /\ last = NoAttempt
    /\ count = ZeroCount
    /\ arg = NoArg
    /\ out = NoOut
    /\ calls = [c \in CallIds |-> IdleCall]

\* The process has crashed: a panic that no goroutine recovers ends it.
Crashed == \E c \in CallIds : calls[c].pc = "panicked"

\* Call c of Request starts.
ConcRequest(c) ==
    /\ ~Crashed
    /\ calls[c].pc = "idle"
    /\ calls' = [calls EXCEPT ![c] = StartedCall]
    /\ UNCHANGED <<pc, i, reqMaker, config, reqData, resp, data, err, now, last, count,
                   arg, out>>

\* Call c runs one iteration of its loop.  When it panics the process ends,
\* and with it every call that is still in its loop.
ConcAttempt(c) ==
    /\ ~Crashed
    /\ calls[c].pc = "loop"
    /\ \E inp \in ConcInputs :
         LET st == callStep(calls[c], inp)
         IN  calls' = IF st.pc = "panicked"
                      THEN [d \in CallIds |->
                               IF d = c THEN st
                               ELSE IF calls[d].pc = "loop"
                               THEN [calls[d] EXCEPT !.pc = "killed"]
                               ELSE calls[d]]
                      ELSE [calls EXCEPT ![c] = st]
    /\ UNCHANGED <<pc, i, reqMaker, config, reqData, resp, data, err, now, last, count,
                   arg, out>>

NextConc == \E c \in CallIds : ConcRequest(c) \/ ConcAttempt(c)

SpecConc == InitConc /\ [][NextConc]_vars

\* ------------------------------------------------------------------------
\* Properties
\* ------------------------------------------------------------------------

\* The sentinel target occurs in the chain of e (a walk that calls no method).
RECURSIVE InChain(_, _)
InChain(e, target) ==
    \/ e = target
    \/ \E k \in 1..Len(e.subs) : InChain(e.subs[k], target)

\* The cause of a RequestError matches ErrInvalidTimestamp.
ClockSkew(e) == InChain(e.Err, ErrInvalidTimestamp)

\* The last attempt ran both classifiers on a response.
Classified == count.Attempts >= 1 /\ last.checked /\ last.decoded

\* C1: one call to Request performs at most 3 attempts and then returns
\* (it never ends any other way); when the attempts all end with a
\* clock-skew error it performs exactly 3 attempts and returns the result
\* of the third.
C1_AtMostThreeAttemptsThenReturns ==
    /\ count.Attempts <= MaxAttempts
    /\ pc # "panicked"
    /\ (pc = "returned" /\ ClockSkew(err)) => (count.Attempts = MaxAttempts /\ i = MaxAttempts)

\* C2: a further attempt is made only after an attempt that ended with a
\* clock-skew error, and only while fewer than 3 attempts were made; an
\* attempt whose request returned success or an error with another cause is
\* the last one and Request returns its result.
C2_OnlyClockSkewIsRetried ==
    /\ (pc = "loop" /\ count.Attempts >= 1) =>
           (ClockSkew(err) /\ count.Attempts < MaxAttempts)
    /\ (count.Attempts >= 1 /\ ~last.panic /\ ~ClockSkew(err)) => pc = "returned"

\* C3: whenever at least one of the two classifiers reports an error,
\* Request does not crash, and its RequestError has HTTPError populated iff
\* the status classifier failed, RespBodyUnmarshalerError populated iff the
\* body decoder failed, and a non-nil Err.
C3_ClassifierErrorsAreReturned ==
    (Classified /\ (last.hv # NilErr \/ ~last.bv.err.isNil)) =>
        /\ pc # "panicked"
        /\ err.HTTPError.isNil <=> (last.hv = NilErr)
        /\ err.RespBodyUnmarshalerError.isNil <=> last.bv.err.isNil
        /\ IsNotNil(err)

\* C4: Request returns a RequestError with IsNil() true iff its final
\* attempt received a response and both the status classifier and the body
\* decoder reported no error; then HTTPError and RespBodyUnmarshalerError
\* are absent and the payload is the decoder's value.
C4_NilErrorIffBothClassifiersPass ==
    pc = "returned" =>
        /\ IsNil(err) <=>
              (/\ last.sent /\ ~last.tr.resp.isNil
               /\ last.checked /\ last.hv = NilErr
               /\ last.decoded /\ last.bv.err.isNil)
        /\ IsNil(err) =>
              (/\ err.HTTPError.isNil
               /\ err.RespBodyUnmarshalerError.isNil
               /\ data = last.bv.data
               /\ resp = last.tr.resp)

C4_Witness ==
    /\ pc = "returned" /\ IsNil(err) /\ data = "d2"
    /\ last.tr.err # NilErr

\* The query string of a request whose URL was composed by hand: what
\* follows the "?".
QueryOf(req) ==
    LET u == req.baseURL
        q == CHOOSE k \in 1..Len(u) : u[k] = "?" /\ \A j \in 1..(k - 1) : u[j] # "?"
    IN  SubSeq(u, q + 1, Len(u))

\* The parameters of a query string: its pieces between "&" separators.
RECURSIVE SplitParams(_)
SplitParams(q) ==
    IF \A k \in 1..Len(q) : q[k] # "&" THEN <<q>>
    ELSE LET a == CHOOSE k \in 1..Len(q) : q[k] = "&" /\ \A j \in 1..(k - 1) : q[j] # "&"
         IN  <<SubSeq(q, 1, a - 1)>> \o SplitParams(SubSeq(q, a + 1, Len(q)))

\* The key of a parameter: what precedes its first "=".
KeyOf(param) ==
    IF \A k \in 1..Len(param) : param[k] # "=" THEN param
    ELSE LET a == CHOOSE k \in 1..Len(param) :
                      param[k] = "=" /\ \A j \in 1..(k - 1) : param[j] # "="
         IN  SubSeq(param, 1, a - 1)

\* Make was called for an endpoint and request data, and built a request.
MadePrivate ==
    /\ count.Make >= 1
    /\ config.ReqBaseConfig.IsUserData
    /\ reqData.ok

\* C5: for a public endpoint (IsUserData false) and parameters that
\* serialize, Make returns a request whose query string is the parameters
\* URL-encoded in key order; Make never returns neither a request nor an
\* error.
C5_PublicMakeReturnsRequest ==
    count.Make >= 1 =>
        /\ ~(last.mk.req.isNil /\ last.mk.err = NilErr)
        /\ (~config.ReqBaseConfig.IsUserData /\ reqData.ok) =>
              (/\ ~last.mk.req.isNil
               /\ last.mk.req.queryString = Encode(reqData.m))

\* C6: the query string built for an authenticated endpoint ends with one
\* parameter whose key is exactly signature, after all other parameters,
\* and those are in strictly increasing key order.
C6_SignatureIsLastParameter ==
    MadePrivate =>
        LET ps == SplitParams(QueryOf(last.mk.req))
            n == Len(ps)
        IN  /\ n >= 2
            /\ KeyOf(ps[n]) = <<"signature">>
            /\ \A j \in 1..(n - 1) : Len(KeyOf(ps[j])) = 1
            /\ \A j, k \in 1..(n - 1) :
                   j < k => KeyRank(KeyOf(ps[j])[1]) < KeyRank(KeyOf(ps[k])[1])

C6_Witness ==
    /\ MadePrivate
    /\ "type" \in DOMAIN reqData.m
    /\ ~last.mk.req.isNil

\* C7: the value of the trailing signature parameter is the MAC, under the
\* credential's secret key, of exactly the query string that precedes
\* "&signature=", and that string holds the timestamp parameter.
C7_SignatureSignsThePrecedingQuery ==
    MadePrivate =>
        LET q == QueryOf(last.mk.req)
            ps == SplitParams(q)
            n == Len(ps)
            signed == SubSeq(q, 1, Len(q) - Len(ps[n]) - 1)
        IN  /\ ps[n] = <<"signature", "=">>
                         \o SignByHmacSHA256ToHex(signed, reqMaker.api.SecretKey)
            /\ \E j \in 1..(n - 1) : KeyOf(ps[j]) = <<"timestamp">>

C7_Witness ==
    /\ MadePrivate
    /\ reqMaker.api.SecretKey = "k2"
    /\ "symbol" \in DOMAIN reqData.m
    /\ ~last.mk.req.isNil

\* The last attempt's maker failed to construct the request.
MakeFailed == count.Attempts >= 1 /\ last.mk.err # NilErr

\* C8: when the maker fails to construct the request, the call ends after
\* exactly one attempt with a non-nil construction error (wrapping the
\* maker's error); no transport call is made, neither classifier is run,
\* and the call is not retried.
C8_MakeFailureEndsTheCall ==
    MakeFailed =>
        /\ pc = "returned"
        /\ count.Attempts = 1
        /\ count.Transport = 0
        /\ count.Checker = 0
        /\ count.Decoder = 0
        /\ IsNotNil(err)
        /\ err.Err = Wrap1("cex: make request", last.mk.err)
        /\ resp.isNil

C8_Witness ==
    /\ MakeFailed
    /\ pc = "returned"
    /\ config.ReqBaseConfig.IsUserData
    /\ config.ReqBaseConfig.Method \in SupportedMethods

\* The last attempt's transport call reported an error and no response.
TransportFailed ==
    count.Attempts >= 1 /\ last.sent /\ last.tr.err # NilErr /\ last.tr.resp.isNil

\* What C9 and C10 share: the attempt is terminal, no classifier ran in it,
\* and the error carries neither HTTP nor body detail.
TerminalWithoutClassifiers ==
    /\ pc = "returned"
    /\ IsNotNil(err)
    /\ err.HTTPError.isNil
    /\ err.RespBodyUnmarshalerError.isNil
    /\ resp.isNil
    /\ ~last.checked
    /\ ~last.decoded

\* C9, in its original wording: a transport error without a response ends the call after
\* exactly one attempt, with a transport error that carries no HTTPError and
\* no body-decode error; no classifier is invoked and nothing is retried.
C9_TransportErrorAfterOneAttempt ==
    TransportFailed =>
        /\ TerminalWithoutClassifiers
        /\ err.Err = Wrap1("cex: request err", last.tr.err)
        /\ count.Attempts = 1
        /\ count.Checker = 0
        /\ count.Decoder = 0

\* C9, as the code has it: the attempt in which the transport reports an error and no
\* response is the last of the call (the first one unless earlier attempts
\* were retried for clock skew): Request returns the transport error, with
\* no HTTPError and no body-decode error, and no classifier is invoked in
\* that attempt.
C9_TransportErrorIsTerminal ==
    TransportFailed =>
        /\ TerminalWithoutClassifiers
        /\ err.Err = Wrap1("cex: request err", last.tr.err)
        /\ count.Attempts = i + 1
        /\ count.Attempts <= MaxAttempts

C9_Witness ==
    /\ TransportFailed
    /\ pc = "returned"
    /\ count.Attempts = 2

\* The last attempt's transport call returned neither a response nor an error.
TransportReturnedNothing ==
    count.Attempts >= 1 /\ last.sent /\ last.tr.err = NilErr /\ last.tr.resp.isNil

\* The internal-invariant error of request.
ErrRespAndErrNil == Plain("cex: resp and err are all nil, resty may have bugs")

\* C10, in its original wording: when the transport returns neither a response nor an
\* error, the call ends after exactly one attempt with a non-nil
\* internal-invariant error, distinct from the transport error and from the
\* classifier errors; no classifier is invoked and nothing is retried.
C10_NothingReturnedAfterOneAttempt ==
    TransportReturnedNothing =>
        /\ TerminalWithoutClassifiers
        /\ err.Err = ErrRespAndErrNil
        /\ err.Err # Wrap1("cex: request err", ErrTransport)
        /\ count.Attempts = 1
        /\ count.Checker = 0
        /\ count.Decoder = 0

\* C10, as the code has it: the attempt in which the transport returns neither a
\* response nor an error is the last of the call (the first one unless
\* earlier attempts were retried for clock skew): Request returns the
\* internal-invariant error, which is not the transport error and wraps no
\* classifier error, and no classifier is invoked in that attempt.
C10_NothingReturnedIsTerminal ==
    TransportReturnedNothing =>
        /\ TerminalWithoutClassifiers
        /\ err.Err = ErrRespAndErrNil
        /\ err.Err # Wrap1("cex: request err", ErrTransport)
        /\ err.Err.subs = <<>>
        /\ count.Attempts = i + 1
        /\ count.Attempts <= MaxAttempts

C10_Witness ==
    /\ TransportReturnedNothing
    /\ pc = "returned"
    /\ count.Attempts = 3

\* The configuration error of request for a method its switch does not know.
ErrMethodNotSupported == Plain("cex: http method is not supported")

\* The call's method is not one the switch of request dispatches.
UnsupportedMethod ==
    count.Attempts >= 1 /\ config.ReqBaseConfig.Method \notin SupportedMethods

\* What the two readings of C11 share: the transport is called only for the
\* four supported methods, and a call with another method ends after exactly
\* one attempt with a non-nil error, without a response, a transport call or
\* a retry.
UnsupportedMethodEndsTheCall ==
    /\ count.Transport >= 1 => config.ReqBaseConfig.Method \in SupportedMethods
    /\ UnsupportedMethod =>
          /\ pc = "returned"
          /\ count.Attempts = 1
          /\ i = 0
          /\ count.Transport = 0
          /\ ~last.sent
          /\ IsNotNil(err)
          /\ resp.isNil

\* C11, in its original wording: a transport call is dispatched only when
\* the method is GET, POST, PUT or DELETE; for any other method the call ends
\* after exactly one attempt with the non-nil configuration error, no
\* transport call is made and the call is not retried.
C11_UnsupportedMethodIsConfigError ==
    /\ UnsupportedMethodEndsTheCall
    /\ UnsupportedMethod => err.Err = ErrMethodNotSupported

\* C11, as the code has it: a transport call is dispatched only when the
\* method is GET, POST, PUT or DELETE; for any other method the call ends
\* after exactly one attempt with a non-nil error, no transport call is made
\* and the call is not retried.  The error is the configuration error when
\* the maker built the request, and the maker's construction error when the
\* maker failed: the maker runs before the method is examined.
C11_UnsupportedMethodEndsAfterMake ==
    /\ UnsupportedMethodEndsTheCall
    /\ UnsupportedMethod =>
          err.Err = IF last.mk.err = NilErr
                    THEN ErrMethodNotSupported
                    ELSE Wrap1("cex: make request", last.mk.err)

C11_Witness ==
    /\ UnsupportedMethod
    /\ pc = "returned"
    /\ reqData.ok
    /\ err.Err = ErrMethodNotSupported

\* The last attempt received a response, and the config has both functions.
ReceivedResponse ==
    /\ count.Attempts >= 1
    /\ last.sent
    /\ ~last.tr.resp.isNil
    /\ config.HTTPStatusCodeChecker # "nil"
    /\ config.RespBodyUnmarshaler # "nil"

\* C12: in every attempt that receives a response (checker and decoder
\* configured) the status classifier and the body decoder are invoked
\* exactly once each, whatever the other returns: an attempt adds one to
\* the calls of each when it receives a response, and nothing otherwise.
C12_BothClassifiersRunOnEveryResponse ==
    [][count'.Attempts = count.Attempts + 1 =>
          LET n == IF ReceivedResponse' THEN 1 ELSE 0
          IN  /\ count'.Checker = count.Checker + n
              /\ count'.Decoder = count.Decoder + n
              /\ ReceivedResponse' => (last'.checked /\ last'.decoded)]_vars

C12_Witness ==
    /\ ReceivedResponse
    /\ last.hv # NilErr
    /\ last.decoded
    /\ ~last.bv.err.isNil
    /\ count.Decoder = 2

\* C13: the HTTP verdict of an attempt is exactly what the config's status
\* classifier returns for the response's status.  When the classifier passes
\* a 500 response and the body decodes, the call succeeds; when the
\* classifier reports an error for a 500 response, the call fails with a
\* RequestError whose HTTPError carries status 500 and the classifier's
\* error.
C13_StatusPolicyIsTheClassifiers ==
    (Classified /\ last.tr.resp.StatusCode = 500) =>
        /\ (last.hv = NilErr /\ last.bv.err.isNil) =>
              (pc = "returned" /\ IsNil(err) /\ data = last.bv.data)
        /\ last.hv # NilErr =>
              (/\ pc # "panicked"
               /\ IsNotNil(err)
               /\ ~err.HTTPError.isNil
               /\ err.HTTPError.StatusCode = 500
               /\ err.HTTPError.Err = last.hv)

\* C20: every RequestError that Request returns carries the ReqBaseConfig
\* of the config it was called with, and has a non-nil Err whenever its
\* HTTPError or its RespBodyUnmarshalerError is populated.
C20_ReturnedErrorCarriesBaseConfig ==
    pc = "returned" =>
        /\ err.ReqBaseConfig = config.ReqBaseConfig
        /\ (~err.HTTPError.isNil \/ ~err.RespBodyUnmarshalerError.isNil) => IsNotNil(err)

C20_Witness ==
    /\ pc = "returned"
    /\ count.Attempts = 3
    /\ ~err.HTTPError.isNil
    /\ ~err.RespBodyUnmarshalerError.isNil
    /\ err.ReqBaseConfig.Method = "DELETE"

\* The envelope decoder has run on a body.
Decoded == pc = "done" /\ out.fn = "fuBodyUnmshWrapper"

\* C14: for every body that json.Unmarshal does not accept as the
\* {code, msg} envelope (an array, text that is not JSON, an object whose
\* field has the wrong type), the envelope check reports no error and the
\* result is the typed payload decoder's: the parse failure alone never
\* fails the decoding.
C14_UnparsedEnvelopeFallsThrough ==
    (Decoded /\ UnmarshalCodeMsg(arg.body).err # NilErr) =>
        /\ out.r.ran
        /\ out.r.data = unmarshaler(arg.body).data
        /\ out.r.err = unmarshaler(arg.body).err

\* C15: for the code c and message that fuBodyUnmshCodeMsg decodes: c = 0
\* or c = 200 gives no envelope error and the typed payload decoder is run;
\* c < 0 gives an error whose cause is the table's entry for c when there is
\* one, and else an error made of the code and the message; every envelope
\* error has CexErrCode = c and CexErrMsg = the message, and the typed
\* payload decoder is not run.
C15_EnvelopeCodeDecidesTheResult ==
    Decoded =>
        LET c == UnmarshalCodeMsg(arg.body).Code
            m == UnmarshalCodeMsg(arg.body).Msg
            r == out.r
        IN  /\ (c = 0 \/ c = 200) =>
                  (/\ r.ran
                   /\ r.data = unmarshaler(arg.body).data
                   /\ r.err = unmarshaler(arg.body).err)
            /\ c < 0 =>
                  (/\ ~r.err.isNil
                   /\ r.err.Err.kind = "wrap"
                   /\ r.err.Err.subs[1] =
                         IF c \in DOMAIN spotCexCustomErrCodes
                         THEN spotCexCustomErrCodes[c]
                         ELSE Plain(ToString(<<c, m>>)))
            /\ ~r.ran =>
                  (/\ ~r.err.isNil
                   /\ r.err.CexErrCode = c
                   /\ r.err.CexErrMsg = m
                   /\ r.data = ZeroData)
            /\ c < 0 => ~r.ran
            /\ arg.body.kind = "envelope" => (c = arg.body.code /\ m = arg.body.msg)

C15_Witness ==
    /\ Decoded
    /\ arg.body.kind = "envelope"
    /\ arg.body.code = -9999
    /\ arg.body.msg = "m"
    /\ arg.body.payload = "d1"
    /\ ~out.r.ran

\* What does hold of C14: a body that json.Unmarshal rejects as a whole (an
\* array, text that is not JSON) leaves codeMsg untouched, and the result is
\* the typed payload decoder's.
C14_RejectedBodiesFallThrough ==
    (Decoded /\ arg.body.kind \in {"array", "text"}) =>
        (out.r.ran /\ out.r.err = unmarshaler(arg.body).err)

\* klineBodyUnmsher has run on an array of rows.
KlineDecoded == pc = "done" /\ out.fn = "klineBodyUnmsher" /\ arg.body.kind = "rows"

Signed == pc = "done" /\ out.fn = "Sign"

\* C17: Api.Sign never crashes; without a signer it returns the nil
\* signature for every payload and key, and with a signer it returns exactly
\* what the signer returns for (payload, key).
C17_SignReturnsTheSignersResult ==
    Signed =>
        /\ ~out.r.panic
        /\ arg.api.signer = "nil" => out.r.sig = NilBytes
        /\ arg.api.signer # "nil" =>
              out.r.sig = CallSigner(arg.api.signer, arg.payload, arg.key).sig

C17_Witness ==
    /\ Signed
    /\ arg.api.signer = "nil"
    /\ arg.payload # <<>>
    /\ arg.key = <<"k3">>
    /\ out.r.sig.isNil

\* The keys of the parameters of a query string, in their order.
KeysOf(q) == [j \in 1..Len(SplitParams(q)) |-> KeyOf(SplitParams(q)[j])]

\* The keys of a query string are in strictly increasing byte order.
KeysSorted(ks) ==
    \A a, b \in 1..Len(ks) : a < b => KeyRank(ks[a][1]) < KeyRank(ks[b][1])

\* C18: the keys of the query string that a maker encodes are the same, in
\* the same order, whatever the order in which the parameter map is
\* iterated and whatever the clock reads, and that order is the sorted one;
\* the query string that Make built for an authenticated endpoint has
\* these keys before its signature.
C18_KeyOrderIsIndependentOfIteration ==
    (count.Make >= 1 /\ reqData.ok) =>
        LET m == reqData.m
            val(t) == IF config.ReqBaseConfig.IsUserData
                      THEN [k \in {"timestamp"} |-> FormatInt(t)]
                      ELSE EmptyMap
            keys(o, t) == KeysOf(Encode(SetInOrder(val(t), m, o)))
        IN  /\ \A o1, o2 \in RangeOrders(m) : \A t1, t2 \in Clock :
                  /\ keys(o1, t1) = keys(o2, t2)
                  /\ KeysSorted(keys(o1, t1))
            /\ config.ReqBaseConfig.IsUserData =>
                  \A o \in RangeOrders(m) :
                      keys(o, now) \o << <<"signature">> >> = KeysOf(QueryOf(last.mk.req))

C18_Witness ==
    /\ count.Make >= 1
    /\ config.ReqBaseConfig.IsUserData
    /\ DOMAIN reqData.m = {"amount", "type"}
    /\ ~last.mk.req.isNil

\* The locals of a call that runs alone and is given the runs of hist.
RECURSIVE RunFrom(_, _)
RunFrom(st, h) ==
    IF h = <<>> \/ st.pc # "loop" THEN st
    ELSE RunFrom(callStep(st, Head(h)), Tail(h))

RunAlone(h) == RunFrom(StartedCall, h)

\* C19: in every interleaving of concurrent calls of Request, each call has
\* its own attempt counter (at most 3 attempts), and is at every moment
\* where it would be running alone against the same transport responses:
\* same position, same counter, same resp, data and err.
C19_EachCallRunsAsIfAlone ==
    \A c \in DOMAIN calls :
        /\ Len(calls[c].hist) <= MaxAttempts
        /\ calls[c].i <= MaxAttempts
        /\ calls[c].pc = "idle" => calls[c] = IdleCall
        /\ calls[c].pc # "idle" => calls[c] = RunAlone(calls[c].hist)

\* What does hold of C19: a call that returns, returns what it would
\* return running alone; no call's locals depend on another call's.
C19_ReturnedCallsReturnAsIfAlone ==
    \A c \in DOMAIN calls :
        /\ Len(calls[c].hist) <= MaxAttempts
        /\ calls[c].pc \in {"loop", "returned", "panicked"} =>
              calls[c] = RunAlone(calls[c].hist)
        /\ calls[c].pc = "killed" =>
              [calls[c] EXCEPT !.pc = "loop"] = RunAlone(calls[c].hist)

\* The value of a parameter: what follows its first "=".
ValueOf(param) == SubSeq(param, Len(KeyOf(param)) + 2, Len(param))

\* The timestamp parameters of the query string Make built.
TimestampParams ==
    LET ps == SplitParams(QueryOf(last.mk.req))
    IN  {j \in 1..Len(ps) : KeyOf(ps[j]) = <<"timestamp">>}

\* C21: for every authenticated request and every parameter set, one that
\* has a key named timestamp included, the signed query string holds
\* exactly one timestamp parameter, and its value is the epoch-millisecond
\* clock read when the request was built.
C21_ExactlyOneCurrentTimestamp ==
    MadePrivate =>
        /\ Cardinality(TimestampParams) = 1
        /\ \A j \in TimestampParams :
              ValueOf(SplitParams(QueryOf(last.mk.req))[j]) = FormatInt(now)

\* What does hold of C21: there is exactly one timestamp parameter, and it
\* is the clock reading unless the parameters have a timestamp of their own,
\* which then replaces it.
C21_OneTimestampCallersWins ==
    MadePrivate =>
        /\ Cardinality(TimestampParams) = 1
        /\ \A j \in TimestampParams :
              ValueOf(SplitParams(QueryOf(last.mk.req))[j]) =
                  IF "timestamp" \in DOMAIN reqData.m
                  THEN QueryEscape(reqData.m["timestamp"])
                  ELSE FormatInt(now)

\* What the parts of C22 that count calls say of one attempt: the maker is
\* invoked once, with the clock read in this attempt; the transport is called
\* at most once; what Request holds after the attempt is what this attempt
\* received and decoded.
AttemptIsSelfContained ==
    /\ count'.Attempts <= MaxAttempts
    /\ count'.Make = count.Make + 1
    /\ count'.Make = count'.Attempts
    /\ count'.Transport \in {count.Transport, count.Transport + 1}
    /\ count'.Transport <= count'.Attempts
    /\ last'.mk = Make(reqMaker, config.ReqBaseConfig, reqData, now')
    /\ ~last'.panic =>
          /\ resp' = IF last'.sent THEN last'.tr.resp ELSE NilResponse
          /\ data' = IF last'.decoded THEN last'.bv.data ELSE ZeroData

\* C22: every attempt of a call invokes the maker exactly once and makes at
\* most one transport call, so that n attempts (1 <= n <= 3) make n maker
\* calls and at most n transport calls; the request of each attempt is built
\* afresh, for an authenticated endpoint with the timestamp read in that
\* attempt; nothing built or received in an earlier attempt is reused.
C22_EveryAttemptBuildsAFreshRequest ==
    [][count'.Attempts = count.Attempts + 1 =>
          /\ AttemptIsSelfContained
          /\ (config.ReqBaseConfig.IsUserData /\ reqData.ok) =>
                (/\ Cardinality(TimestampParams') = 1
                 /\ \A j \in TimestampParams' :
                       ValueOf(SplitParams(QueryOf(last'.mk.req))[j]) = FormatInt(now'))]_vars

\* What does hold of C22: the counts, the fresh build and the absence of
\* reuse, for every attempt.
C22_MakerOncePerAttempt ==
    [][count'.Attempts = count.Attempts + 1 => AttemptIsSelfContained]_vars

\* The last attempt's transport call returned a response and an error, and
\* the config has both functions.
ResponseAndError ==
    /\ ReceivedResponse
    /\ last.tr.err # NilErr

\* C23: when the transport returns both a response and an error, the
\* attempt does not end with the transport error: both classifiers are run
\* on the response, and the attempt's result is success (nil error, the
\* response and the decoded payload) exactly when both classifiers report no
\* error; the transport error is then not in the result, and otherwise it
\* is one of the causes of the error.
C23_ResponseWithErrorIsClassified ==
    ResponseAndError =>
        /\ ~last.panic
        /\ last.checked /\ last.decoded
        /\ err.Err # Wrap1("cex: request err", last.tr.err)
        /\ IsNil(err) <=> (last.hv = NilErr /\ last.bv.err.isNil)
        /\ IsNil(err) =>
              (/\ err = NewRequestError(config.ReqBaseConfig)
               /\ resp = last.tr.resp
               /\ data = last.bv.data
               /\ pc = "returned")
        /\ IsNotNil(err) =>
              (/\ err.Err.kind = "wrapErrors"
               /\ err.Err.subs[1] = last.tr.err
               /\ err.HTTPError.isNil <=> (last.hv = NilErr)
               /\ err.RespBodyUnmarshalerError.isNil <=> last.bv.err.isNil)

C23_Witness ==
    /\ ResponseAndError
    /\ last.tr.resp.StatusCode = 500
    /\ IsNil(err)
    /\ data = "d1"
    /\ pc = "returned"

\* The config of the call has no status classifier or no body decoder.
MissingFunction ==
    /\ count.Attempts >= 1
    /\ (config.HTTPStatusCodeChecker = "nil" \/ config.RespBodyUnmarshaler = "nil")

\* The configuration error of request for the function that is nil (the
\* status classifier is tested first).
ErrMissingFunction ==
    IF config.HTTPStatusCodeChecker = "nil"
    THEN Plain("cex: config http status code checker is nil")
    ELSE Plain("cex: config resp body unmarshaler is nil")

\* C24, in its original wording: when the config has no status classifier
\* or no body decoder, the call ends after exactly one attempt with the
\* non-nil configuration error; neither function is invoked and nothing is
\* retried; exactly one transport call was made before the error is
\* returned.
C24_MissingFunctionIsConfigError ==
    MissingFunction =>
        /\ pc = "returned"
        /\ count.Attempts = 1
        /\ count.Checker = 0
        /\ count.Decoder = 0
        /\ count.Transport = 1
        /\ IsNotNil(err)
        /\ err.Err = ErrMissingFunction

\* C24, as the code has it: when the config has no status classifier or no
\* body decoder, neither function is ever invoked, the call makes one
\* attempt with at most one transport call and is not retried.  The nil test
\* comes after the request is built and sent and a response is received:
\* when the attempt receives a response, Request returns the non-nil
\* configuration error after exactly one transport call; when it does not
\* (the maker fails, the method is not supported, the request is never sent,
\* the transport returns no response) the call ends on that earlier outcome
\* and the configuration error is not reported.
C24_MissingFunctionAfterResponse ==
    MissingFunction =>
        /\ pc # "loop"
        /\ count.Attempts = 1
        /\ i = 0
        /\ count.Checker = 0
        /\ count.Decoder = 0
        /\ count.Transport <= 1
        /\ (last.sent /\ ~last.tr.resp.isNil) =>
              (/\ pc = "returned"
               /\ count.Transport = 1
               /\ IsNotNil(err)
               /\ err.Err = ErrMissingFunction
               /\ err.HTTPError.isNil
               /\ err.RespBodyUnmarshalerError.isNil
               /\ resp = last.tr.resp
               /\ data = ZeroData)
        /\ ~(last.sent /\ ~last.tr.resp.isNil) => err.Err # ErrMissingFunction

C24_Witness ==
    /\ MissingFunction
    /\ config.HTTPStatusCodeChecker = "set"
    /\ last.sent
    /\ last.tr.resp.StatusCode = 500
    /\ last.tr.err # NilErr
    /\ pc = "returned"
    /\ count.Transport = 1

====
